---- MODULE Spec2Model ----
(***************************************************************************)
(* State-machine model of the collaborative design editor front end.       *)
(*                                                                         *)
(* The repository holds two generations of the editor state:               *)
(*   - the design document's slices (elementsById / layerOrder design      *)
(*     slice, past / present / future history slice and the realtime hook  *)
(*     that applies inbound element events), and                           *)
(*   - the application's slices (items[] design slice, past / future       *)
(*     history slice, presence slice, EditorPage and the socket hooks).    *)
(* Each Redux slice is one variable holding the slice state; each reducer  *)
(* is an operator from (state, payload) to the next state, and each        *)
(* dispatch site is an action.                                             *)
(***************************************************************************)
EXTENDS Integers, Sequences, FiniteSets, TLC

VARIABLES
    canvas,      \* design slice of the design document (elementsById, layerOrder, ...)
    docHistory,  \* history slice of the design document (past, present, future)
    design,      \* design slice of the application (items, activeDesignId)
    history,     \* history slice of the application (past, future)
    nSnap,       \* number of snapshot calls made on the history slices so far
    phase,       \* shape of the call sequence made on the history slices so far
    inbox,       \* element-update messages of one origin received so far, by sequence number
    presence,    \* presence slice of the application (collaborators, isConnected)
    socket,      \* the sockets the realtime hook has created: status and listeners
    session,     \* the realtime hook's component and its running effect
    wire,        \* the messages the realtime hook has emitted, oldest first
    lastEvent,   \* the socket event delivered last: whether a listener ran, the
                 \* length of the redo branch it met, and a bit that every delivery flips
    query,       \* the getDesigns query of the list page: status, requests made, data
    sync,        \* elements created locally while the session was disconnected, and
                 \* what the last result of the query did to them
    outbox,      \* the document hook's socket: connected or not, the patches waiting
                 \* in its send buffer and the patches sent on the transport
    arrivals,    \* the remote updates applied so far, in the order the relay delivered them
    watch,       \* the presence events handled so far, in order of arrival, and for
                 \* each collaborator the ticks since its last presence update
    client,      \* the socket client module: the socket it holds, the sockets it has
                 \* made and disconnected, and the outcome of the last call
    heap,        \* the element arrays of the store as objects: contents by reference
    refs         \* the array the active design's elements field refers to, and the
                 \* arrays the snapshots of the past and the future refer to

\* The variables of the realtime channel.
channelVars == <<outbox, arrivals, watch, client>>

realtimeVars == <<inbox, presence, socket, session, wire, lastEvent, query, sync, channelVars>>

realtimeVarsButPresence == <<socket, session, wire, lastEvent, query, sync, channelVars>>

\* The variables of the store's object graph.
objectVars == <<heap, refs>>

vars == <<canvas, docHistory, design, history, nSnap, phase, realtimeVars, objectVars>>

\* ------------------------------------------------------------------ bounds

\* Longest layer order the model lets addElement / reorderLayers build.
MaxOrderLen == 3

\* Number of snapshot calls the model follows (beyond the history limit of 50).
MaxSnapshots == 52

\* Number of undo calls the model follows in one run of the history slices.
MaxUndos == 2

\* Longest past stack the model lets the editor build.
MaxPast == 2

\* Number of sequenced update messages one origin sends.
MaxSeq == 3

\* Number of times the model lets the realtime effect set up a session.
MaxSessions == 2

\* Number of local mutations whose patches the document's hook emits.
MaxEmits == 2

\* Number of remote updates the relay delivers.
MaxArrivals == 2

\* Number of presence events the model follows in arrival order.
MaxPresenceEvents == 3

\* Number of ticks of the liveness window the model follows for a collaborator.
MaxTicks == 2
MaxSockets == 3

\* ------------------------------------------------------------ value domains

\* null / undefined of the source.
Null == "null"

\* Element identifiers used as inputs.
ElementIds == {"a", "b"}

\* Values a geometry field takes.
Vals == {0, 50}

\* The geometry fields of an element that patches address.
Fields == {"x", "y"}

\* Full element payloads: the id and the geometry fields.
Elements == [id : ElementIds, x : Vals, y : Vals]

\* Partial<DesignElement>: a value for any subset of the fields.
Patches == UNION {[D -> Vals] : D \in SUBSET Fields}

\* Sequences over S of length at most n.
SeqsUpTo(S, n) == UNION {[1..k -> S] : k \in 0..n}

\* layerOrder.filter((eid) => eid !== id)
RECURSIVE Without(_, _)
Without(s, id) ==
    IF s = <<>> THEN <<>>
    ELSE IF Head(s) # id THEN <<Head(s)>> \o Without(Tail(s), id)
         ELSE Without(Tail(s), id)

\* Number of occurrences of v in the sequence s.
Count(s, v) == Cardinality({i \in 1..Len(s) : s[i] = v})

\* ------------------------------------ design slice of the design document

canvasInitialState ==
    [designId |-> Null,
     elementsById |-> <<>>,
     layerOrder |-> <<>>,
     selectedElementId |-> Null,
     dirty |-> FALSE]

\* elements.forEach: later entries overwrite the map entry, every id is pushed.
RECURSIVE loadElements(_, _)
loadElements(state, elements) ==
    IF elements = <<>> THEN state
    ELSE LET el == Head(elements)
             byId == [i \in DOMAIN state.elementsById \cup {el.id} |->
                         IF i = el.id THEN el ELSE state.elementsById[i]]
         IN loadElements([state EXCEPT !.elementsById = byId,
                                       !.layerOrder = Append(@, el.id)],
                         Tail(elements))

loadDesign(state, designId, elements) ==
    LET cleared == [state EXCEPT !.designId = designId,
                                 !.elementsById = <<>>,
                                 !.layerOrder = <<>>]
        loaded == loadElements(cleared, elements)
    IN [loaded EXCEPT !.selectedElementId = Null, !.dirty = FALSE]

addElement(state, el) ==
    [state EXCEPT
        !.elementsById = [i \in DOMAIN state.elementsById \cup {el.id} |->
                             IF i = el.id THEN el ELSE state.elementsById[i]],
        !.layerOrder = Append(@, el.id),
        !.dirty = TRUE]

\* { ...patch, ...existing }
spreadExistingLast(existing, patch) ==
    [f \in DOMAIN existing \cup DOMAIN patch |->
        IF f \in DOMAIN existing THEN existing[f] ELSE patch[f]]

\* { ...existing, ...patch }
spread(existing, patch) ==
    [f \in DOMAIN existing \cup DOMAIN patch |->
        IF f \in DOMAIN patch THEN patch[f] ELSE existing[f]]

patchElement(state, id, patch) ==
    IF id \notin DOMAIN state.elementsById THEN state
    ELSE [state EXCEPT
            !.elementsById = [@ EXCEPT ![id] = spread(@, patch)],
            !.dirty = TRUE]

deleteElement(state, id) ==
    [state EXCEPT
        !.elementsById = [i \in DOMAIN state.elementsById \ {id} |->
                             state.elementsById[i]],
        !.layerOrder = Without(state.layerOrder, id),
        !.selectedElementId = IF @ = id THEN Null ELSE @,
        !.dirty = TRUE]

reorderLayers(state, newOrder) ==
    [state EXCEPT !.layerOrder = newOrder, !.dirty = TRUE]

setSelectedElement(state, id) ==
    [state EXCEPT !.selectedElementId = id]

\* ----------------------------------- history slice of the design document

\* present: null
NoState == <<>>

\* if (state.past.length > 50) state.past.shift()
HistoryLimit == 50

docHistoryInitialState == [past |-> <<>>, present |-> NoState, future |-> <<>>]

\* savePresent without its last statement, state.future = [].
savePresentNoClear(state, payload) ==
    LET pushed == IF state.present # NoState
                  THEN Append(state.past, state.present) ELSE state.past
    IN [state EXCEPT !.past = IF Len(pushed) > HistoryLimit THEN Tail(pushed) ELSE pushed,
                     !.present = payload]

savePresent(state, payload) ==
    LET pushed == IF state.present # NoState
                  THEN Append(state.past, state.present) ELSE state.past
        kept == IF state.present # NoState /\ Len(pushed) > HistoryLimit
                THEN Tail(pushed) ELSE pushed
    IN [past |-> kept, present |-> payload, future |-> <<>>]

\* undo without the !state.past.length guard.
docUndoEager(state) ==
    IF state.present = NoState THEN state
    ELSE [past |-> IF state.past = <<>> THEN <<>>
                   ELSE SubSeq(state.past, 1, Len(state.past) - 1),
          present |-> IF state.past = <<>> THEN NoState
                      ELSE state.past[Len(state.past)],
          future |-> <<state.present>> \o state.future]

docUndo(state) ==
    IF state.past = <<>> \/ state.present = NoState THEN state
    ELSE [past |-> SubSeq(state.past, 1, Len(state.past) - 1),
          present |-> state.past[Len(state.past)],
          future |-> <<state.present>> \o state.future]

docRedo(state) ==
    IF state.future = <<>> \/ state.present = NoState THEN state
    ELSE [past |-> Append(state.past, state.present),
          present |-> Head(state.future),
          future |-> Tail(state.future)]

\* ------------------------------------- history slice of the application

historyInitialState == [past |-> <<>>, future |-> <<>>]

pushSnapshot(state, entry) ==
    [past |-> Append(state.past, entry), future |-> <<>>]

\* An undo that pops the entry and drops it.
undoDrop(state) ==
    IF state.past = <<>> THEN state
    ELSE [state EXCEPT !.past = SubSeq(state.past, 1, Len(state.past) - 1)]

\* const entry = state.past.pop(); if (entry) state.future.unshift(entry)
undo(state) ==
    IF state.past = <<>> THEN state
    ELSE [past |-> SubSeq(state.past, 1, Len(state.past) - 1),
          future |-> <<state.past[Len(state.past)]>> \o state.future]

\* const entry = state.future.shift(); if (entry) state.past.push(entry)
redo(state) ==
    IF state.future = <<>> THEN state
    ELSE [past |-> Append(state.past, Head(state.future)),
          future |-> Tail(state.future)]

clearHistory(state) == [past |-> <<>>, future |-> <<>>]

\* -------------------------------------- design slice of the application

\* Design identifiers used as inputs.
DesignIds == {"seed-design", "d2"}

\* Values of new Date().toISOString(), as instants.
Times == {0, 1}

\* Full element payloads dispatched in the application.
AppElements == [id : ElementIds, x : Vals, y : {0}]

seedDesign ==
    [_id |-> "seed-design",
     updatedAt |-> 0,
     elements |-> << [id |-> "headline", x |-> 120, y |-> 120],
                     [id |-> "cta", x |-> 120, y |-> 360],
                     [id |-> "accent-circle", x |-> 720, y |-> 540] >>]

designInitialState ==
    [items |-> <<seedDesign>>, activeDesignId |-> "seed-design"]

\* Designs the persistence API returns or the list page creates.
FetchedDesigns ==
    {[_id |-> "seed-design", updatedAt |-> 1, elements |-> <<>>],
     [_id |-> "d2", updatedAt |-> 0, elements |-> <<>>],
     [_id |-> "d2", updatedAt |-> 1,
      elements |-> << [id |-> "a", x |-> 0, y |-> 0], [id |-> "b", x |-> 0, y |-> 0] >>]}

\* Array.prototype.findIndex on the designs, 1-based; 0 when nothing matches.
designIndex(items, designId) ==
    IF \E i \in 1..Len(items) : items[i]._id = designId
    THEN CHOOSE i \in 1..Len(items) :
            /\ items[i]._id = designId
            /\ \A j \in 1..(i - 1) : items[j]._id # designId
    ELSE 0

\* Array.prototype.findIndex on the elements, 1-based; 0 when nothing matches.
elementIndex(elements, id) ==
    IF \E i \in 1..Len(elements) : elements[i].id = id
    THEN CHOOSE i \in 1..Len(elements) :
            /\ elements[i].id = id
            /\ \A j \in 1..(i - 1) : elements[j].id # id
    ELSE 0

setActiveDesignId(state, id) == [state EXCEPT !.activeDesignId = id]

upsertDesignMerge(state, d) ==
    LET existingIndex == designIndex(state.items, d._id)
    IN IF existingIndex >= 1
       THEN [state EXCEPT !.items[existingIndex] =
               [d EXCEPT !.elements =
                   @ \o SelectSeq(state.items[existingIndex].elements,
                                  LAMBDA el : \A i \in 1..Len(d.elements) :
                                                 d.elements[i].id # el.id)]]
       ELSE [state EXCEPT !.items = Append(@, d)]

\* An upsertDesign that pushes the design whether or not its _id is there.
upsertDesignPush(state, d) == [state EXCEPT !.items = Append(@, d)]

upsertDesign(state, d) ==
    LET existingIndex == designIndex(state.items, d._id)
    IN IF existingIndex >= 1
       THEN [state EXCEPT !.items[existingIndex] = d]
       ELSE [state EXCEPT !.items = Append(@, d)]

\* An updateElement that also makes the design of the update the active one.
updateElementActivate(state, designId, element, now) ==
    LET di == designIndex(state.items, designId)
    IN IF di = 0 THEN [state EXCEPT !.activeDesignId = designId]
       ELSE LET ei == elementIndex(state.items[di].elements, element.id)
            IN [state EXCEPT
                  !.items[di].elements =
                      IF ei >= 1 THEN [@ EXCEPT ![ei] = element]
                      ELSE Append(@, element),
                  !.items[di].updatedAt = now,
                  !.activeDesignId = designId]

updateElement(state, designId, element, now) ==
    LET di == designIndex(state.items, designId)
    IN IF di = 0 THEN state
       ELSE LET ei == elementIndex(state.items[di].elements, element.id)
            IN [state EXCEPT
                  !.items[di].elements =
                      IF ei >= 1 THEN [@ EXCEPT ![ei] = element]
                      ELSE Append(@, element),
                  !.items[di].updatedAt = now]

\* The elements of the design with the given id; <<>> when there is none.
elementsOf(state, designId) ==
    LET di == designIndex(state.items, designId)
    IN IF di = 0 THEN <<>> ELSE state.items[di].elements

\* ------------------------------------ presence slice of the application

UserIds == {"u1", "u2"}

\* Presence payloads of 'presence:update': the collaborator and a cursor.
Collaborators == [id : UserIds, cursor : Vals]

presenceInitialState == [collaborators |-> <<>>, isConnected |-> FALSE]

setConnectionState(state, connected) == [state EXCEPT !.isConnected = connected]

\* state.collaborators = { [payload.id]: payload }
upsertCollaboratorAlone(state, payload) ==
    [state EXCEPT !.collaborators = [id \in {payload.id} |-> payload]]

\* state.collaborators[payload.id] = payload
upsertCollaborator(state, payload) ==
    [state EXCEPT !.collaborators =
        [id \in DOMAIN @ \cup {payload.id} |->
            IF id = payload.id THEN payload ELSE @[id]]]

\* delete state.collaborators[id]
removeCollaborator(state, id) ==
    [state EXCEPT !.collaborators = [i \in DOMAIN @ \ {id} |-> @[i]]]

resetPresence(state) == presenceInitialState

\* ------------------------------------------------ the application's store

designReducer(state, action) ==
    CASE action.type = "design/setActiveDesignId" -> setActiveDesignId(state, action.payload)
      [] action.type = "design/upsertDesign" -> upsertDesign(state, action.payload)
      [] action.type = "design/updateElement" ->
            updateElement(state, action.payload.designId, action.payload.element,
                          action.payload.now)
      [] OTHER -> state

historyReducerEager(state, action) ==
    CASE action.type = "history/pushSnapshot" -> pushSnapshot(state, action.payload)
      [] action.type = "history/undo" -> undo(state)
      [] action.type = "history/redo" -> redo(state)
      [] action.type = "history/clearHistory" -> clearHistory(state)
      [] OTHER -> [state EXCEPT !.future = <<>>]

historyReducer(state, action) ==
    CASE action.type = "history/pushSnapshot" -> pushSnapshot(state, action.payload)
      [] action.type = "history/undo" -> undo(state)
      [] action.type = "history/redo" -> redo(state)
      [] action.type = "history/clearHistory" -> clearHistory(state)
      [] OTHER -> state

presenceReducer(state, action) ==
    CASE action.type = "presence/setConnectionState" -> setConnectionState(state, action.payload)
      [] action.type = "presence/upsertCollaborator" -> upsertCollaborator(state, action.payload)
      [] action.type = "presence/removeCollaborator" -> removeCollaborator(state, action.payload)
      [] action.type = "presence/resetPresence" -> resetPresence(state)
      [] OTHER -> state

\* The store's root reducer: every slice reducer sees every action.
rootReducer(state, action) ==
    [design |-> designReducer(state.design, action),
     history |-> historyReducer(state.history, action),
     presence |-> presenceReducer(state.presence, action)]

\* The store after the actions have been dispatched in order.
RECURSIVE dispatchAll(_, _)
dispatchAll(state, actions) ==
    IF actions = <<>> THEN state
    ELSE dispatchAll(rootReducer(state, Head(actions)), Tail(actions))

\* ------------------------------------------- the realtime hooks' sockets

\* useRealtime opens a socket of its own for every session; useCanvasRealtime
\* takes the shared socket of createSocket().
Hooks == {"useRealtime", "useCanvasRealtime"}

SocketIds == 1..MaxSessions

SharedSocket == 1

SocketEvents == {"connect", "disconnect", "presence:update", "presence:leave"}

\* A socket that io() has not created yet.
noSocket == [status |-> "none", wasConnected |-> FALSE, listeners |-> {}]

NoEvent == [event |-> Null, handled |-> FALSE, redo |-> 0, tick |-> 0]

\* The socket the hook's effect uses for its n-th session.
socketFor(hook, n) == IF hook = "useCanvasRealtime" THEN SharedSocket ELSE n

\* io(url, options) / createSocket(): a new socket starts connecting at once.
openSocket(sock) ==
    IF sock.status = "none" THEN [sock EXCEPT !.status = "connecting"] ELSE sock

\* socket.on(event, handler) for the four handlers of session n.
subscribe(listeners, n) ==
    listeners \cup {[event |-> ev, session |-> n] : ev \in SocketEvents}

unsubscribeSome(listeners, n) ==
    listeners \ {[event |-> ev, session |-> n] : ev \in {"connect", "disconnect"}}

\* socket.off(event, handler) for the four handlers of session n.
unsubscribe(listeners, n) ==
    listeners \ {[event |-> ev, session |-> n] : ev \in SocketEvents}

\* The listeners of a socket that run when the event is delivered.
listening(sock, ev) == {l \in sock.listeners : l.event = ev}

\* The actions the handlers of useRealtime / useCanvasRealtime dispatch.
handleConnect == [type |-> "presence/setConnectionState", payload |-> TRUE]

handleDisconnect == [type |-> "presence/setConnectionState", payload |-> FALSE]

handlePresence(payload) == [type |-> "presence/upsertCollaborator", payload |-> payload]

handleLeave(id) == [type |-> "presence/removeCollaborator", payload |-> id]

\* socket.emit('design:join', { designId })
joinMessages(designId) == <<[event |-> "design:join", designId |-> designId]>>

leaveMessagesNone(designId) == <<>>

\* socket.emit('design:leave', { designId })
leaveMessages(designId) == <<[event |-> "design:leave", designId |-> designId]>>

\* ----------------------------------------------- the socket client module

\* let socket = null: no socket held, none made, none disconnected yet.
\* held is the socket of the module variable (0 for null), made counts the
\* sockets io() has made, closed holds those disconnect() was called on,
\* connected those whose transport is up, dropped those that lost it once;
\* call, result and threw describe the last call of an exported function and
\* tick alternates with every call; got is the socket each caller of
\* createSocket has in hand.
Callers == {"useSocketEvent", "useCanvasRealtime"}

clientInitialState ==
    [held |-> 0, made |-> 0, closed |-> {}, connected |-> {}, dropped |-> {},
     call |-> Null,
     result |-> 0, threw |-> FALSE, tick |-> 0, got |-> [w \in Callers |-> 0]]

\* A createSocket that calls io() on every call.
createSocketAlways(c) ==
    [c EXCEPT !.held = c.made + 1, !.made = c.made + 1, !.call = "createSocket",
              !.result = c.made + 1, !.threw = FALSE, !.tick = 1 - @]

\* if (!socket) socket = io(env.socketUrl, {...}); return socket
createSocket(c) ==
    LET s == IF c.held = 0 THEN c.made + 1 ELSE c.held
    IN [c EXCEPT !.held = s, !.made = IF c.held = 0 THEN c.made + 1 ELSE @,
                 !.call = "createSocket", !.result = s, !.threw = FALSE,
                 !.tick = 1 - @]

\* if (!socket) throw new Error('Socket not initialized...'); return socket
getSocket(c) ==
    [c EXCEPT !.call = "getSocket", !.result = c.held, !.threw = (c.held = 0),
              !.tick = 1 - @]

\* if (socket) { socket.disconnect(); socket = null; }
disconnectSocket(c) ==
    [c EXCEPT !.held = 0,
              !.closed = IF c.held = 0 THEN @ ELSE @ \cup {c.held},
              !.connected = @ \ {c.held},
              !.call = "disconnectSocket", !.result = 0, !.threw = FALSE,
              !.tick = 1 - @]

\* The update messages an origin can send: the element id and the patch.
UpdateMessages == [id : ElementIds, patch : Patches \ {<<>>}]

\* The slot of a sequence number whose message has not arrived.
NoMessage == [id |-> Null, patch |-> <<>>]

\* ------------------------------------------- the store's element arrays

\* References to array objects: the live array, one for each stored snapshot
\* and one for the array being built.
Refs == 1..(MaxPast + 2)

\* The references held by the design slice and by the history slice.
inUse(r) ==
    {r.live} \cup {r.past[i] : i \in 1..Len(r.past)}
             \cup {r.future[i] : i \in 1..Len(r.future)}

\* A reference that no slice holds.
freshRef(r) == CHOOSE f \in Refs \ inUse(r) : \A g \in Refs \ inUse(r) : f <= g

draftWriteInPlace(h, r, content) ==
    [heap |-> [h EXCEPT ![r.live] = content], live |-> r.live]

\* A createSlice reducer assigns to or pushes onto design.elements of its
\* draft: the finished state holds a new array with the new content and the
\* array of the base state is left as it was.
draftWrite(h, r, content) ==
    [heap |-> [h EXCEPT ![freshRef(r)] = content], live |-> freshRef(r)]

\* The arrays that some slice still refers to; the others are garbage.
collect(h, r) == [x \in Refs |-> IF x \in inUse(r) THEN h[x] ELSE <<>>]

\* The seed design's elements are the one array of the initial store.
InitObjects ==
    /\ heap = [r \in Refs |-> IF r = 1 THEN seedDesign.elements ELSE <<>>]
    /\ refs = [live |-> 1, past |-> <<>>, future |-> <<>>]

\* ------------------------------------------------------------ initial state

\* EditorPage is rendered with the given realtime hook, whose effect has not
\* run yet.
InitRealtime(hook) ==
    /\ presence = presenceInitialState
    /\ socket = [s \in SocketIds |-> noSocket]
    /\ session = [hook |-> hook, mounted |-> TRUE, designId |-> Null,
                  socket |-> SharedSocket, count |-> 0]
    /\ wire = <<>>
    /\ lastEvent = NoEvent
    /\ query = [status |-> "uninitialized", requests |-> 0, data |-> <<>>]
    /\ sync = [unsent |-> {}, result |-> "none", dropped |-> {}, connected |-> FALSE]
    /\ outbox = [connected |-> FALSE, buffer |-> <<>>, sent |-> <<>>]
    /\ arrivals = <<>>
    /\ watch = [log |-> <<>>, age |-> [u \in UserIds |-> 0]]
    /\ client = clientInitialState

Init ==
    /\ canvas = canvasInitialState
    /\ docHistory = docHistoryInitialState
    /\ design = designInitialState
    /\ history = historyInitialState
    /\ nSnap = 0
    /\ phase = [calls |-> "snapshots", undos |-> 0]
    /\ inbox = [k \in 1..MaxSeq |-> NoMessage]
    /\ InitRealtime("useRealtime")
    /\ InitObjects

\* --------------------- the design document's design slice and realtime hook

\* Element lists the persistence API returns for a design.
PersistedElements ==
    {<<>>,
     <<[id |-> "a", x |-> 0, y |-> 0]>>,
     <<[id |-> "a", x |-> 0, y |-> 0], [id |-> "b", x |-> 0, y |-> 0]>>}

canvasFrame == UNCHANGED <<docHistory, design, history, nSnap, phase, realtimeVars, objectVars>>

LoadDesign ==
    /\ \E elements \in PersistedElements : canvas' = loadDesign(canvas, "d1", elements)
    /\ canvasFrame

AddElement ==
    /\ Len(canvas.layerOrder) < MaxOrderLen
    /\ \E el \in Elements : canvas' = addElement(canvas, el)
    /\ canvasFrame

PatchElement ==
    /\ \E id \in ElementIds, patch \in Patches : canvas' = patchElement(canvas, id, patch)
    /\ canvasFrame

DeleteElement ==
    /\ \E id \in ElementIds : canvas' = deleteElement(canvas, id)
    /\ canvasFrame

ReorderLayers ==
    /\ \E newOrder \in SeqsUpTo(ElementIds, MaxOrderLen) :
          canvas' = reorderLayers(canvas, newOrder)
    /\ canvasFrame

SetSelectedElement ==
    /\ \E id \in ElementIds \cup {Null} : canvas' = setSelectedElement(canvas, id)
    /\ canvasFrame

\* socket.on('element-create', ...)
OnElementCreate ==
    /\ Len(canvas.layerOrder) < MaxOrderLen
    /\ \E el \in Elements : canvas' = addElement(canvas, el)
    /\ canvasFrame

\* socket.on('element-update', ...)
OnElementUpdate ==
    /\ \E id \in ElementIds, patch \in Patches : canvas' = patchElement(canvas, id, patch)
    /\ canvasFrame

\* socket.on('element-delete', ...)
OnElementDelete ==
    /\ \E id \in ElementIds : canvas' = deleteElement(canvas, id)
    /\ canvasFrame

\* socket.on('layer-reorder', ...)
OnLayerReorder ==
    /\ \E newOrder \in SeqsUpTo(ElementIds, MaxOrderLen) :
          canvas' = reorderLayers(canvas, newOrder)
    /\ canvasFrame

NextCanvas ==
    \/ LoadDesign
    \/ AddElement
    \/ PatchElement
    \/ DeleteElement
    \/ ReorderLayers
    \/ SetSelectedElement
    \/ OnElementCreate
    \/ OnElementUpdate
    \/ OnElementDelete
    \/ OnLayerReorder

SpecCanvas == Init /\ [][NextCanvas]_vars

\* ------------------------------------------------ the two history slices
\* The same calls are made on the history slice of the design document and on
\* the history slice of the application.  The state after the k-th mutation
\* has element "a" at x = k; the snapshot call that follows the k-th mutation
\* passes it.

stateAt(k) ==
    [designId |-> "d1",
     elementsById |-> [i \in {"a"} |-> [id |-> "a", x |-> k, y |-> 0]],
     layerOrder |-> <<"a">>,
     selectedElementId |-> Null,
     dirty |-> TRUE]

entryAt(k) ==
    [designId |-> "d1",
     snapshot |-> <<[id |-> "a", x |-> k, y |-> 0]>>,
     timestamp |-> k]

historyFrame == UNCHANGED <<canvas, design, realtimeVars, objectVars>>

HistorySnapshot ==
    /\ nSnap < MaxSnapshots
    /\ nSnap' = nSnap + 1
    /\ docHistory' = savePresent(docHistory, stateAt(nSnap + 1))
    /\ history' = pushSnapshot(history, entryAt(nSnap + 1))
    /\ phase' = [phase EXCEPT !.calls = IF @ = "snapshots" THEN "snapshots" ELSE "other"]
    /\ historyFrame

HistoryUndo ==
    /\ phase.undos < MaxUndos
    /\ docHistory' = docUndo(docHistory)
    /\ history' = undo(history)
    /\ phase' = [calls |-> IF phase.calls = "snapshots" /\ nSnap >= 1
                           THEN "undone" ELSE "other",
                 undos |-> phase.undos + 1]
    /\ UNCHANGED nSnap
    /\ historyFrame

HistoryRedo ==
    /\ docHistory' = docRedo(docHistory)
    /\ history' = redo(history)
    /\ phase' = [phase EXCEPT !.calls = IF @ = "undone" THEN "redone" ELSE "other"]
    /\ UNCHANGED nSnap
    /\ historyFrame

NextHistory ==
    \/ HistorySnapshot
    \/ HistoryUndo
    \/ HistoryRedo

SpecHistory == Init /\ [][NextHistory]_vars

\* ------------------------------------------ the application's design slice

designFrame == UNCHANGED <<canvas, docHistory, history, nSnap, phase, realtimeVars, objectVars>>

\* DesignListPage: onClick of a design card, handleCreateDesign.
SetActiveDesignId ==
    /\ \E id \in DesignIds \cup {Null} : design' = setActiveDesignId(design, id)
    /\ designFrame

\* DesignListPage: the effect on fetched data, handleCreateDesign.
UpsertDesign ==
    /\ \E d \in FetchedDesigns : design' = upsertDesign(design, d)
    /\ designFrame

UpdateElement ==
    /\ \E designId \in DesignIds, element \in AppElements, now \in Times :
          design' = updateElement(design, designId, element, now)
    /\ designFrame

Next ==
    \/ SetActiveDesignId
    \/ UpsertDesign
    \/ UpdateElement

Spec == Init /\ [][Next]_vars

\* --------------------------------- the editor: design and history together

editorFrame == UNCHANGED <<canvas, docHistory, nSnap, phase, realtimeVars, objectVars>>

\* An edit of the active design.
EditElement ==
    /\ \E element \in AppElements, now \in Times :
          design' = updateElement(design, design.activeDesignId, element, now)
    /\ UNCHANGED history
    /\ editorFrame

\* A snapshot of the active design's elements is pushed after an edit.
TakeSnapshot ==
    /\ Len(history.past) < MaxPast
    /\ \E now \in Times :
          history' = pushSnapshot(history,
                        [designId |-> design.activeDesignId,
                         snapshot |-> elementsOf(design, design.activeDesignId),
                         timestamp |-> now])
    /\ UNCHANGED design
    /\ editorFrame

\* EditorPage: onUndo={() => dispatch(undo())}
OnUndo ==
    /\ history' = undo(history)
    /\ UNCHANGED design
    /\ editorFrame

\* EditorPage: onRedo={() => dispatch(redo())}
OnRedo ==
    /\ history' = redo(history)
    /\ UNCHANGED design
    /\ editorFrame

ClearHistory ==
    /\ history' = clearHistory(history)
    /\ UNCHANGED design
    /\ editorFrame

NextEditor ==
    \/ EditElement
    \/ TakeSnapshot
    \/ OnUndo
    \/ OnRedo
    \/ ClearHistory

SpecEditor == Init /\ [][NextEditor]_vars

\* ------------------------------- the application's realtime hooks at work

InitSession ==
    /\ canvas = canvasInitialState
    /\ docHistory = docHistoryInitialState
    /\ design = designInitialState
    /\ history = historyInitialState
    /\ nSnap = 0
    /\ phase = [calls |-> "snapshots", undos |-> 0]
    /\ inbox = [k \in 1..MaxSeq |-> NoMessage]
    /\ \E hook \in Hooks : InitRealtime(hook)
    /\ InitObjects

sessionFrame == UNCHANGED <<canvas, docHistory, nSnap, phase, inbox, objectVars, channelVars>>

\* dispatch(action) for each of the actions, in order.
Dispatch(actions) ==
    LET s == dispatchAll([design |-> design, history |-> history, presence |-> presence],
                         actions)
    IN /\ design' = s.design
       /\ history' = s.history
       /\ presence' = s.presence

\* EditorPage: activeDesign?._id, the design id the hook is called with.
activeDesignIdOf(state) ==
    IF designIndex(state.items, state.activeDesignId) >= 1
    THEN state.activeDesignId ELSE Null

\* The effect's cleanup on the socket of the session that ends: the four
\* socket.off calls and, in useRealtime, socket.disconnect().
cleanupSocket(sock, sess) ==
    LET off == [sock EXCEPT !.listeners = unsubscribe(@, sess.count)]
    IN IF sess.hook = "useRealtime" THEN [off EXCEPT !.status = "closed"] ELSE off

cleanupActionsNone(sock, sess) == <<>>

\* The actions the cleanup dispatches: socket.disconnect() fires 'disconnect'
\* on a connected socket for the listeners still registered, then the cleanup
\* dispatches setConnectionState(false) itself.
cleanupActions(sock, sess) ==
    (IF /\ sess.hook = "useRealtime"
        /\ sock.status = "connected"
        /\ listening(cleanupSocket(sock, sess), "disconnect") # {}
     THEN <<handleDisconnect>> ELSE <<>>)
    \o <<[type |-> "presence/setConnectionState", payload |-> FALSE]>>

\* The effect of the realtime hook for the design id target (Null: none): the
\* cleanup of the running session, if there is one, then the setup of the
\* session for target, if there is one.
Effect(target) ==
    LET old == session.designId
        n == session.count + 1
        s == socketFor(session.hook, n)
        cleaned == IF old = Null THEN socket
                   ELSE [socket EXCEPT ![session.socket] = cleanupSocket(@, session)]
    IN /\ target # Null => session.count < MaxSessions
       /\ socket' = IF target = Null THEN cleaned
                    ELSE [cleaned EXCEPT ![s] =
                            [openSocket(@) EXCEPT !.listeners = subscribe(@, n)]]
       /\ wire' = wire \o (IF old = Null THEN <<>> ELSE leaveMessages(old))
                       \o (IF target = Null THEN <<>> ELSE joinMessages(target))
       /\ session' = [session EXCEPT
                        !.designId = target,
                        !.socket = IF target = Null THEN @ ELSE s,
                        !.count = IF target = Null THEN @ ELSE n]
       /\ Dispatch(IF old = Null THEN <<>> ELSE cleanupActions(socket[session.socket], session))

\* React runs the effect when the design id of the hook has changed.
RunEffect ==
    /\ session.mounted
    /\ activeDesignIdOf(design) # session.designId
    /\ Effect(activeDesignIdOf(design))
    /\ UNCHANGED <<lastEvent, query, sync>>
    /\ sessionFrame

\* EditorPage unmounts: React runs the cleanup of the running effect.
Unmount ==
    /\ session.mounted
    /\ LET old == session.designId
       IN /\ socket' = IF old = Null THEN socket
                        ELSE [socket EXCEPT ![session.socket] = cleanupSocket(@, session)]
          /\ wire' = wire \o (IF old = Null THEN <<>> ELSE leaveMessages(old))
          /\ session' = [session EXCEPT !.mounted = FALSE, !.designId = Null]
          /\ Dispatch(IF old = Null THEN <<>>
                      ELSE cleanupActions(socket[session.socket], session))
    /\ UNCHANGED <<lastEvent, query, sync>>
    /\ sessionFrame

\* The socket delivers an event: the listeners registered for it run and
\* dispatch their actions.
Deliver(s, ev, actions) ==
    LET handled == listening(socket[s], ev) # {}
    IN /\ Dispatch(IF handled THEN actions ELSE <<>>)
       /\ lastEvent' = [event |-> ev, handled |-> handled,
                        redo |-> Len(history.future), tick |-> 1 - lastEvent.tick]
       /\ UNCHANGED <<session, wire, query, sync>>
       /\ sessionFrame

\* The transport connects, or connects again after a loss.
OnConnect ==
    \E s \in SocketIds :
        /\ socket[s].status = "connecting"
        /\ socket' = [socket EXCEPT ![s].status = "connected", ![s].wasConnected = TRUE]
        /\ Deliver(s, "connect", <<handleConnect>>)

\* The transport is lost; the socket starts to reconnect.
OnDisconnect ==
    \E s \in SocketIds :
        /\ socket[s].status = "connected"
        /\ socket' = [socket EXCEPT ![s].status = "connecting"]
        /\ Deliver(s, "disconnect", <<handleDisconnect>>)

OnPresenceUpdate ==
    \E s \in SocketIds, payload \in Collaborators :
        /\ socket[s].status = "connected"
        /\ UNCHANGED socket
        /\ Deliver(s, "presence:update", <<handlePresence(payload)>>)

OnPresenceLeave ==
    \E s \in SocketIds, id \in UserIds :
        /\ socket[s].status = "connected"
        /\ UNCHANGED socket
        /\ Deliver(s, "presence:leave", <<handleLeave(id)>>)

\* DesignListPage: onClick of a design card.
SelectDesign ==
    /\ \E i \in 1..Len(design.items) :
          Dispatch(<<[type |-> "design/setActiveDesignId", payload |-> design.items[i]._id]>>)
    /\ UNCHANGED realtimeVarsButPresence
    /\ sessionFrame

\* DesignListPage: handleCreateDesign, with an id no design has yet.
CreateDesign ==
    /\ \E id \in DesignIds, now \in Times :
          /\ designIndex(design.items, id) = 0
          /\ Dispatch(<<[type |-> "design/upsertDesign",
                         payload |-> [_id |-> id, updatedAt |-> now, elements |-> <<>>]],
                        [type |-> "design/setActiveDesignId", payload |-> id]>>)
    /\ UNCHANGED realtimeVarsButPresence
    /\ sessionFrame

NextSession ==
    \/ RunEffect
    \/ Unmount
    \/ OnConnect
    \/ OnDisconnect
    \/ OnPresenceUpdate
    \/ OnPresenceLeave
    \/ SelectDesign
    \/ CreateDesign

SpecSession == InitSession /\ [][NextSession]_vars

\* ------------------------- the editor's history and its session together

\* Snapshots, undo and redo in the editor while socket events arrive.
NextCollab ==
    \/ RunEffect
    \/ OnConnect
    \/ OnDisconnect
    \/ OnPresenceUpdate
    \/ OnPresenceLeave
    \/ TakeSnapshot
    \/ OnUndo
    \/ OnRedo

SpecCollab == InitSession /\ [][NextCollab]_vars

\* ------------------------------ the editor's snapshots as shared objects

\* Element payloads of the edits followed here.
SnapshotElements == [id : {"a"}, x : Vals, y : {0}]

snapshotFrame ==
    UNCHANGED <<canvas, docHistory, nSnap, phase, realtimeVarsButPresence, inbox>>

\* An edit of the active design: updateElement writes design.elements.
SnapshotEdit ==
    /\ Refs \ inUse(refs) # {}
    /\ \E element \in SnapshotElements :
          Dispatch(<<[type |-> "design/updateElement",
                      payload |-> [designId |-> design.activeDesignId,
                                   element |-> element, now |-> 1]]>>)
    /\ LET w == draftWrite(heap, refs, elementsOf(design', design.activeDesignId))
       IN /\ refs' = [refs EXCEPT !.live = w.live]
          /\ heap' = collect(w.heap, refs')
    /\ snapshotFrame

\* The active design is replaced by a fetched design, which brings an array
\* of its own.
SnapshotReplace ==
    /\ Refs \ inUse(refs) # {}
    /\ \E d \in FetchedDesigns :
          /\ d._id = design.activeDesignId
          /\ Dispatch(<<[type |-> "design/upsertDesign", payload |-> d]>>)
          /\ refs' = [refs EXCEPT !.live = freshRef(refs)]
          /\ heap' = collect([heap EXCEPT ![freshRef(refs)] = d.elements], refs')
    /\ snapshotFrame

\* pushSnapshot with the elements array of the active design as the snapshot:
\* the entry refers to the array that the design slice holds.
SnapshotTake ==
    /\ Len(history.past) < MaxPast
    /\ Dispatch(<<[type |-> "history/pushSnapshot",
                   payload |-> [designId |-> design.activeDesignId,
                                snapshot |-> elementsOf(design, design.activeDesignId),
                                timestamp |-> 1]]>>)
    /\ refs' = [refs EXCEPT !.past = Append(@, refs.live), !.future = <<>>]
    /\ heap' = collect(heap, refs')
    /\ snapshotFrame

SnapshotUndo ==
    /\ Dispatch(<<[type |-> "history/undo", payload |-> Null]>>)
    /\ refs' = IF refs.past = <<>> THEN refs
               ELSE [refs EXCEPT !.past = SubSeq(@, 1, Len(@) - 1),
                                 !.future = <<refs.past[Len(refs.past)]>> \o @]
    /\ UNCHANGED heap
    /\ snapshotFrame

SnapshotRedo ==
    /\ Dispatch(<<[type |-> "history/redo", payload |-> Null]>>)
    /\ refs' = IF refs.future = <<>> THEN refs
               ELSE [refs EXCEPT !.past = Append(@, Head(refs.future)),
                                 !.future = Tail(@)]
    /\ UNCHANGED heap
    /\ snapshotFrame

NextSnapshot ==
    \/ SnapshotEdit
    \/ SnapshotReplace
    \/ SnapshotTake
    \/ SnapshotUndo
    \/ SnapshotRedo

SpecSnapshot == Init /\ [][NextSnapshot]_vars

\* ------------------- the list page's query and the editor's session together

\* Results of GET /designs: lists of designs with distinct ids.
FetchResults ==
    {<<>>} \cup {<<d>> : d \in FetchedDesigns}
           \cup {<<[_id |-> "seed-design", updatedAt |-> 1, elements |-> <<>>],
                   [_id |-> "d2", updatedAt |-> 0, elements |-> <<>>]>>}

\* The ids of the elements in a list of elements.
idsOf(elements) == {elements[i].id : i \in 1..Len(elements)}

\* data.forEach((design) => dispatch(upsertDesign(design)))
upsertActions(data) ==
    [i \in 1..Len(data) |-> [type |-> "design/upsertDesign", payload |-> data[i]]]

\* An edit of the active design in the editor. An element that the edit
\* creates while the session is disconnected after having been connected is
\* recorded as unsent.
LocalEdit ==
    /\ \E element \in AppElements, now \in Times :
          /\ Dispatch(<<[type |-> "design/updateElement",
                         payload |-> [designId |-> design.activeDesignId,
                                      element |-> element, now |-> now]]>>)
          /\ sync' = [sync EXCEPT !.unsent =
                        IF /\ session.designId = design.activeDesignId
                           /\ socket[session.socket].wasConnected
                           /\ ~presence.isConnected
                           /\ element.id \notin idsOf(elementsOf(design, design.activeDesignId))
                        THEN @ \cup {<<design.activeDesignId, element.id>>}
                        ELSE @]
    /\ UNCHANGED <<socket, session, wire, lastEvent, query>>
    /\ sessionFrame

\* DesignListPage mounts: useGetDesignsQuery starts the request unless skipped.
StartFetch ==
    /\ query.status = "uninitialized"
    /\ query' = [query EXCEPT !.status = "pending", !.requests = @ + 1]
    /\ UNCHANGED <<design, history, presence, socket, session, wire, lastEvent, sync>>
    /\ sessionFrame

\* The request succeeds and the effect of DesignListPage runs on the data.
FetchFulfilled ==
    /\ query.status = "pending"
    /\ \E data \in FetchResults :
          LET fetched == {data[i]._id : i \in 1..Len(data)}
              lost == {u \in sync.unsent :
                         \E i \in 1..Len(data) :
                             /\ data[i]._id = u[1]
                             /\ u[2] \notin idsOf(data[i].elements)}
          IN /\ query' = [query EXCEPT !.status = "fulfilled", !.data = data]
             /\ Dispatch(IF Len(data) = 0 THEN <<>> ELSE upsertActions(data))
             /\ sync' = [unsent |-> {u \in sync.unsent : u[1] \notin fetched},
                         result |-> IF Len(data) = 0 THEN "failed" ELSE "replaced",
                         dropped |-> lost,
                         connected |-> presence.isConnected]
    /\ UNCHANGED <<socket, session, wire, lastEvent>>
    /\ sessionFrame

\* The request fails: data stays undefined and the effect returns at once.
FetchRejected ==
    /\ query.status = "pending"
    /\ query' = [query EXCEPT !.status = "rejected"]
    /\ sync' = [sync EXCEPT !.result = "failed", !.dropped = {},
                             !.connected = presence.isConnected]
    /\ UNCHANGED <<design, history, presence, socket, session, wire, lastEvent>>
    /\ sessionFrame

NextReconcile ==
    \/ RunEffect
    \/ OnConnect
    \/ OnDisconnect
    \/ LocalEdit
    \/ StartFetch
    \/ FetchFulfilled
    \/ FetchRejected

SpecReconcile == InitSession /\ [][NextReconcile]_vars

\* ------------- the design document's realtime hook with sequenced messages

\* The session has joined a design and loaded its persisted elements.
InitInbound ==
    /\ \E elements \in PersistedElements \ {<<>>} :
          canvas = loadDesign(canvasInitialState, "d1", elements)
    /\ docHistory = docHistoryInitialState
    /\ design = designInitialState
    /\ history = historyInitialState
    /\ nSnap = 0
    /\ phase = [calls |-> "snapshots", undos |-> 0]
    /\ inbox = [k \in 1..MaxSeq |-> NoMessage]
    /\ InitRealtime("useRealtime")
    /\ InitObjects

\* socket.on('element-update', ...) for the message the origin numbered seq:
\* the handler dispatches updateElement({id, patch}) for every message in the
\* order of arrival; the messages arrive in any order, each one once.
OnSequencedUpdate ==
    /\ \E seq \in 1..MaxSeq, msg \in UpdateMessages :
          /\ inbox[seq] = NoMessage
          /\ canvas' = patchElement(canvas, msg.id, msg.patch)
          /\ inbox' = [inbox EXCEPT ![seq] = msg]
    /\ UNCHANGED <<docHistory, design, history, nSnap, phase>>
    /\ UNCHANGED <<presence, socket, session, wire, lastEvent, query, sync, objectVars,
                   channelVars>>

NextInbound ==
    \/ OnSequencedUpdate

SpecInbound == InitInbound /\ [][NextInbound]_vars

\* ----------------- the design document's realtime hook with local mutations

outboundFrame ==
    UNCHANGED <<design, history, nSnap, phase, inbox, presence, socket, session, wire,
                lastEvent, query, sync, arrivals, watch, client, objectVars>>

\* socketRef.current?.emit(event, payload): the socket sends the packet when
\* it is connected and keeps it in its send buffer otherwise.
emit(box, msg) ==
    IF box.connected THEN [box EXCEPT !.sent = Append(@, msg)]
    ELSE [box EXCEPT !.buffer = Append(@, msg)]

\* A local update of an element: the reducer is dispatched, the history is
\* given the new present and the patch is emitted through the hook. The
\* message remembers whether the session was connected when it was issued.
LocalUpdate ==
    /\ Len(outbox.buffer) + Len(outbox.sent) < MaxEmits
    /\ \E msg \in UpdateMessages :
          /\ canvas' = patchElement(canvas, msg.id, msg.patch)
          /\ docHistory' = savePresent(docHistory,
                               [elementsById |-> canvas'.elementsById,
                                layerOrder |-> canvas'.layerOrder])
          /\ outbox' = emit(outbox, [id |-> msg.id, patch |-> msg.patch,
                                     synced |-> outbox.connected])
    /\ outboundFrame

\* The transport of the hook's socket connects: the socket sends what its
\* send buffer holds.
OutboundConnect ==
    /\ ~outbox.connected
    /\ outbox' = [connected |-> TRUE, buffer |-> <<>>,
                  sent |-> outbox.sent \o outbox.buffer]
    /\ UNCHANGED <<canvas, docHistory>>
    /\ outboundFrame

\* The transport of the hook's socket is lost.
OutboundDisconnect ==
    /\ outbox.connected
    /\ outbox' = [outbox EXCEPT !.connected = FALSE]
    /\ UNCHANGED <<canvas, docHistory>>
    /\ outboundFrame

NextOutbound ==
    \/ LocalUpdate
    \/ OutboundConnect
    \/ OutboundDisconnect

SpecOutbound == InitInbound /\ [][NextOutbound]_vars

\* ------------- the design document's realtime hook with several origins

\* The clients whose updates the relay forwards.
Origins == {"o1", "o2"}

\* socket.on('element-update', ...) for an update of some origin: the updates
\* are applied in the order in which the relay delivers them.
OnRelayedUpdate ==
    /\ Len(arrivals) < MaxArrivals
    /\ \E origin \in Origins, msg \in UpdateMessages :
          /\ canvas' = patchElement(canvas, msg.id, msg.patch)
          /\ arrivals' = Append(arrivals, [origin |-> origin, id |-> msg.id,
                                           patch |-> msg.patch])
    /\ UNCHANGED <<docHistory, design, history, nSnap, phase, inbox, presence, socket,
                   session, wire, lastEvent, query, sync, outbox, watch, client,
                   objectVars>>

NextRelay ==
    \/ OnRelayedUpdate

SpecRelay == InitInbound /\ [][NextRelay]_vars

\* ------------------------------------ the callers of the socket client

clientFrame ==
    UNCHANGED <<canvas, docHistory, design, history, nSnap, phase, inbox, presence,
                socket, session, wire, lastEvent, query, sync, outbox, arrivals, watch,
                objectVars>>

\* The effect of a hook asks for the socket and keeps what it is given; io()
\* makes a socket when none is held.
CreateSocket ==
    /\ client.held # 0 \/ client.made < MaxSockets
    /\ \E w \in Callers :
          client' = [createSocket(client) EXCEPT !.got[w] = createSocket(client).result]
    /\ clientFrame

\* A caller reads the socket.
GetSocket ==
    /\ client' = getSocket(client)
    /\ clientFrame

\* A caller disconnects the socket.
DisconnectSocket ==
    /\ client' = disconnectSocket(client)
    /\ clientFrame

\* autoConnect: the transport of a socket that was not disconnected comes up.
ClientConnect ==
    /\ \E s \in (1..client.made) \ (client.closed \cup client.connected) :
          client' = [client EXCEPT !.connected = @ \cup {s}]
    /\ clientFrame

\* The transport of a connected socket is lost.
ClientDrop ==
    /\ \E s \in client.connected :
          client' = [client EXCEPT !.connected = @ \ {s}, !.dropped = @ \cup {s}]
    /\ clientFrame

NextSocketClient ==
    CreateSocket \/ GetSocket \/ DisconnectSocket \/ ClientConnect \/ ClientDrop

SpecSocketClient == Init /\ [][NextSocketClient]_vars

\* ------------------------------ the presence events of a running session

presenceFrame ==
    UNCHANGED <<canvas, docHistory, nSnap, phase, inbox, objectVars, session, wire, query,
                sync, outbox, arrivals, client>>

\* 'presence:update' arrives on a connected socket that has the listener.
PresenceUpdateArrives ==
    /\ Len(watch.log) < MaxPresenceEvents
    /\ \E s \in SocketIds, payload \in Collaborators :
          /\ socket[s].status = "connected"
          /\ listening(socket[s], "presence:update") # {}
          /\ Dispatch(<<handlePresence(payload)>>)
          /\ watch' = [log |-> Append(watch.log, [event |-> "presence:update",
                                                  id |-> payload.id, payload |-> payload]),
                       age |-> [watch.age EXCEPT ![payload.id] = 0]]
          /\ lastEvent' = [event |-> "presence:update", handled |-> TRUE,
                           redo |-> Len(history.future), tick |-> 1 - lastEvent.tick]
    /\ UNCHANGED socket
    /\ presenceFrame

\* 'presence:leave' arrives on a connected socket that has the listener.
PresenceLeaveArrives ==
    /\ Len(watch.log) < MaxPresenceEvents
    /\ \E s \in SocketIds, id \in UserIds :
          /\ socket[s].status = "connected"
          /\ listening(socket[s], "presence:leave") # {}
          /\ Dispatch(<<handleLeave(id)>>)
          /\ watch' = [log |-> Append(watch.log, [event |-> "presence:leave", id |-> id,
                                                  payload |-> [id |-> id, cursor |-> 0]]),
                       age |-> [watch.age EXCEPT ![id] = 0]]
          /\ lastEvent' = [event |-> "presence:leave", handled |-> TRUE,
                           redo |-> Len(history.future), tick |-> 1 - lastEvent.tick]
    /\ UNCHANGED socket
    /\ presenceFrame

\* A tick of the liveness window passes. The hook sets up no timer, so
\* nothing runs: the entries of the presence map only grow older.
Tick ==
    /\ \E u \in DOMAIN presence.collaborators : watch.age[u] < MaxTicks
    /\ watch' = [watch EXCEPT !.age =
                    [u \in UserIds |->
                        IF u \in DOMAIN presence.collaborators /\ watch.age[u] < MaxTicks
                        THEN watch.age[u] + 1 ELSE watch.age[u]]]
    /\ UNCHANGED <<design, history, presence, socket, lastEvent>>
    /\ presenceFrame

NextPresence ==
    \/ RunEffect
    \/ OnConnect
    \/ OnDisconnect
    \/ PresenceUpdateArrives
    \/ PresenceLeaveArrives
    \/ Tick

SpecPresence == InitSession /\ [][NextPresence]_vars

\* =================================================================== claims

\* newOrder holds exactly the ids of order, each as often as order does.
IsPermutation(newOrder, order) ==
    /\ Len(newOrder) = Len(order)
    /\ \A i \in 1..Len(order) : Count(newOrder, order[i]) = Count(order, order[i])

\* C1: after every create, update, delete and reorder (local or remote) every
\* id of the layer order has an entry in the element map, and every element of
\* the map occurs exactly once in the layer order.
C1_ElementOrderInvariant ==
    /\ \A i \in 1..Len(canvas.layerOrder) :
          canvas.layerOrder[i] \in DOMAIN canvas.elementsById
    /\ \A id \in DOMAIN canvas.elementsById : Count(canvas.layerOrder, id) = 1

\* C2: a reorder whose newOrder is not a permutation of the current layer
\* order leaves the element map and the layer order as they were.
C2_InvalidReorderRejected ==
    [][\A newOrder \in SeqsUpTo(ElementIds, MaxOrderLen) :
          (/\ ~IsPermutation(newOrder, canvas.layerOrder)
           /\ canvas' = reorderLayers(canvas, newOrder))
          => /\ canvas'.elementsById = canvas.elementsById
             /\ canvas'.layerOrder = canvas.layerOrder]_vars

\* C3: an update that targets an element id absent from the design does not
\* re-create the element: the id is still absent after the call.
C3_UpdateOfAbsentElementIsNoOp ==
    [][\A designId \in DesignIds, element \in AppElements, now \in Times :
          (/\ designIndex(design.items, designId) # 0
           /\ elementIndex(elementsOf(design, designId), element.id) = 0
           /\ design' = updateElement(design, designId, element, now))
          => elementIndex(elementsOf(design', designId), element.id) = 0]_vars

\* C4: a delete that targets an element id absent from the store leaves the
\* element map, the layer order, the selection and the dirty marker unchanged.
C4_DeleteOfAbsentElementIsNoOp ==
    [][\A id \in ElementIds :
          (/\ id \notin DOMAIN canvas.elementsById
           /\ canvas' = deleteElement(canvas, id))
          => canvas' = canvas]_vars

\* C5: create with an id the store already holds stores the new payload under
\* that id, keeps the number of elements and keeps the id exactly once in the
\* layer order.
C5_CreateWithDuplicateIdOverwrites ==
    [][\A el \in Elements :
          (/\ el.id \in DOMAIN canvas.elementsById
           /\ Count(canvas.layerOrder, el.id) = 1
           /\ canvas' = addElement(canvas, el))
          => /\ canvas'.elementsById[el.id] = el
             /\ Cardinality(DOMAIN canvas'.elementsById)
                   = Cardinality(DOMAIN canvas.elementsById)
             /\ Count(canvas'.layerOrder, el.id) = 1]_vars

\* C6: for every n from 1 to the history limit, an undo made after n snapshot
\* calls makes present the state before the n-th mutation, and a redo made
\* right after that undo makes present the state the undo was made in.
C6_UndoRedoAfterNSnapshots ==
    /\ (phase.calls = "undone" /\ nSnap \in 1..HistoryLimit)
          => docHistory.present = stateAt(nSnap - 1)
    /\ (phase.calls = "redone" /\ nSnap \in 1..HistoryLimit)
          => docHistory.present = stateAt(nSnap)

\* C7: an undo issued in the editor leaves the design with the elements of the
\* snapshot it went back to, and a redo leaves it with the elements of the
\* snapshot it went forward to.
C7_UndoRedoChangeTheElementStore ==
    [][/\ (/\ history.past # <<>>
           /\ history' = undo(history)
           /\ history'.past # <<>>)
          => LET entry == history'.past[Len(history'.past)]
             IN elementsOf(design', entry.designId) = entry.snapshot
       /\ (/\ history.future # <<>>
           /\ history' = redo(history))
          => LET entry == Head(history.future)
             IN elementsOf(design', entry.designId) = entry.snapshot]_vars

\* C8: after any snapshot call the future stack is empty, whatever calls came
\* before it.
C8_SnapshotClearsFuture ==
    [][(nSnap' = nSnap + 1)
          => /\ docHistory'.future = <<>>
             /\ history'.future = <<>>]_vars

\* C8 witness: a snapshot call was made after an undo that had filled the
\* future stack (snapshot, snapshot, undo, snapshot).
C8_Witness ==
    /\ phase.undos = 1
    /\ nSnap = 3
    /\ docHistory.present = stateAt(3)
    /\ docHistory.past = <<stateAt(1)>>
    /\ docHistory.future = <<>>
    /\ history.past = <<entryAt(1), entryAt(3)>>
    /\ history.future = <<>>

\* C9: the past stack never holds more entries than the history limit, and a
\* snapshot call made on a full past stack drops its oldest entry.
C9_PastNeverExceedsLimit ==
    [][/\ Len(docHistory'.past) <= HistoryLimit
       /\ Len(history'.past) <= HistoryLimit
       /\ (/\ nSnap' = nSnap + 1
           /\ Len(docHistory.past) = HistoryLimit
           /\ docHistory.present # NoState)
          => docHistory'.past = Append(Tail(docHistory.past), docHistory.present)
       /\ (/\ nSnap' = nSnap + 1
           /\ Len(history.past) = HistoryLimit)
          => history'.past = Append(Tail(history.past), entryAt(nSnap + 1))]_vars

\* C10: an undo call made with an empty past stack and a redo call made with
\* an empty future stack change nothing of the history slice.
C10_UndoRedoOnEmptyStackIsNoOp ==
    [][/\ (phase'.undos = phase.undos + 1 /\ docHistory.past = <<>>)
          => docHistory' = docHistory
       /\ (phase'.undos = phase.undos + 1 /\ history.past = <<>>)
          => history' = history
       /\ (phase'.undos = phase.undos /\ nSnap' = nSnap /\ docHistory.future = <<>>)
          => docHistory' = docHistory
       /\ (phase'.undos = phase.undos /\ nSnap' = nSnap /\ history.future = <<>>)
          => history' = history]_vars

\* C10 witness: after one snapshot call an undo met the empty past stack of the
\* design document's slice and the redo that followed met its empty future
\* stack.
C10_Witness ==
    /\ phase = [calls |-> "redone", undos |-> 1]
    /\ nSnap = 1
    /\ docHistory = [past |-> <<>>, present |-> stateAt(1), future |-> <<>>]

\* The sequence numbers of the received messages that set field f of element id.
SeqsSetting(id, f) ==
    {k \in 1..MaxSeq : inbox[k].id = id /\ f \in DOMAIN inbox[k].patch}

Highest(S) == CHOOSE k \in S : \A j \in S : j <= k

\* C11: when update messages of one origin arrive out of order, every field of
\* an element holds the value of the highest-numbered received message that
\* set it: a message with a lower sequence number never overwrites the effect
\* of one with a higher sequence number.
C11_HigherSequenceNumberWins ==
    \A id \in DOMAIN canvas.elementsById : \A f \in Fields :
        SeqsSetting(id, f) # {}
        => canvas.elementsById[id][f] = inbox[Highest(SeqsSetting(id, f))].patch[f]

C13_SyncedEntryStartsReconciliation ==
    [][(session.designId # Null /\ ~presence.isConnected /\ presence'.isConnected)
       => query'.requests = query.requests + 1]_vars

\* C14: a connect event that follows a transport loss while the session is
\* open is followed by join(designId): the step of the reconnect emits the
\* join message of the session's design again.
C14_ReconnectEmitsJoin ==
    [][\A s \in SocketIds :
          (/\ session.designId # Null
           /\ s = session.socket
           /\ socket[s].wasConnected
           /\ socket[s].status = "connecting"
           /\ socket'[s].status = "connected")
          => wire' = wire \o joinMessages(session.designId)]_vars

C16_NoListenerOutlivesItsSession ==
    [][/\ \A s \in SocketIds : \A l \in socket'[s].listeners :
             /\ session'.designId # Null
             /\ s = session'.socket
             /\ l.session = session'.count
       /\ (lastEvent'.tick # lastEvent.tick /\ session.designId = Null)
          => /\ presence' = presence
             /\ design' = design
             /\ history' = history]_vars

\* C16 happens: the editor has unmounted and a socket that is still connected
\* has delivered a presence update that no listener handled.
C16_Witness ==
    /\ ~session.mounted
    /\ session.count > 0
    /\ lastEvent.event = "presence:update"
    /\ ~lastEvent.handled

\* C17: at most one design is joined at any time: in the messages the hook
\* has emitted every join but the first comes right after the leave of the
\* design joined before it, and every leave comes right after the join of the
\* same design.
C17_AtMostOneDesignJoined ==
    \A i \in 1..Len(wire) :
        /\ wire[i].event = "design:join"
           => \/ i = 1
              \/ wire[i - 1].event = "design:leave"
        /\ wire[i].event = "design:leave"
           => /\ i > 1
              /\ wire[i - 1] = [event |-> "design:join", designId |-> wire[i].designId]

\* C17 happens: the editor has switched from one design to another.
C17_Witness ==
    \E i \in 1..Len(wire) :
        /\ i + 2 <= Len(wire)
        /\ wire[i].event = "design:join"
        /\ wire[i + 1].event = "design:leave"
        /\ wire[i + 2].event = "design:join"
        /\ wire[i + 2].designId # wire[i].designId

\* C18: presence exists only while a session is active: when the running
\* session is left or torn down (the editor unmounts or switches to another
\* design) the presence map holds no entry recorded during that session.
C18_PresencePurgedOnLeave ==
    [][(session.designId # Null /\ session' # session)
       => presence'.collaborators = <<>>]_vars

\* C19: a stored snapshot never changes after it was stored: whatever the
\* element store does afterwards (create, update, replacement of the design),
\* the array every entry of the past and of the future refers to still has
\* the content the entry was stored with.
C19_StoredSnapshotsNeverChange ==
    /\ Len(refs.past) = Len(history.past)
    /\ Len(refs.future) = Len(history.future)
    /\ \A i \in 1..Len(refs.past) : heap[refs.past[i]] = history.past[i].snapshot
    /\ \A i \in 1..Len(refs.future) : heap[refs.future[i]] = history.future[i].snapshot
    /\ heap[refs.live] = elementsOf(design, design.activeDesignId)

\* C19 happens: the design was edited and then replaced after a snapshot of
\* it was stored, and the stored snapshot differs from the live elements.
C19_Witness ==
    /\ Len(history.past) = 2
    /\ history.past[1].snapshot # history.past[2].snapshot
    /\ history.past[2].snapshot # elementsOf(design, design.activeDesignId)
    /\ elementsOf(design, design.activeDesignId) = <<>>

\* C20: when the fetch of a reconciliation fails or returns no data, the local
\* designs and their elements stay as they were and the session is not in the
\* synced state: the local state is replaced only by a fetch that succeeds.
C20_FailedFetchKeepsLocalStateAndNoSync ==
    [][/\ (query.status = "pending" /\ sync'.result = "failed") => design' = design
       /\ sync'.result = "failed" => ~presence'.isConnected]_vars

\* C21: the session starts disconnected; it becomes connected only in the
\* step of a transport connect event on the socket of an open session; it is
\* disconnected after every transport disconnect event of that socket and
\* after every teardown, and it is never connected while no session is open.
C21_SessionStateMachine ==
    [][/\ ((~presence.isConnected /\ presence'.isConnected)
           => (/\ session.designId # Null
               /\ session' = session
               /\ socket[session.socket].status = "connecting"
               /\ socket'[session.socket].status = "connected"
               /\ lastEvent'.event = "connect"))
       /\ ((/\ session.designId # Null
            /\ socket[session.socket].status = "connected"
            /\ socket'[session.socket].status # "connected")
           => ~presence'.isConnected)
       /\ ((session.designId # Null /\ session' # session) => ~presence'.isConnected)
       /\ (session.designId = Null => ~presence.isConnected)
       /\ (session'.designId = Null => ~presence'.isConnected)]_vars

\* C21 happens: a session was connected and has then been torn down.
C21_Witness ==
    /\ session.hook = "useRealtime"
    /\ ~session.mounted
    /\ \E s \in SocketIds : socket[s].wasConnected /\ socket[s].status = "closed"
    /\ ~presence.isConnected

\* C22: no patch of a local mutation that was issued while the session was
\* not synced is sent on the transport, neither at once nor when the session
\* becomes synced later: every patch sent was issued while connected.
C22_OfflineMutationsAreNeverSent ==
    \A i \in 1..Len(outbox.sent) : outbox.sent[i].synced

\* The positions of the delivered updates that set field f of element id.
ArrivalsSetting(id, f) ==
    {i \in 1..Len(arrivals) : arrivals[i].id = id /\ f \in DOMAIN arrivals[i].patch}

\* The value of field f the element id was loaded with.
LoadedValue(id, f) ==
    CHOOSE v \in Vals : \E els \in PersistedElements : \E i \in 1..Len(els) :
        els[i].id = id /\ els[i][f] = v

\* C23: after updates of different origins have been applied in the order of
\* their arrival, every field of an element holds the value of the update
\* that arrived last among those that set it, and a field that no update set
\* holds the value it had before; the element keeps its id.
C23_LastArrivalWinsPerField ==
    \A id \in DOMAIN canvas.elementsById :
        /\ canvas.elementsById[id].id = id
        /\ \A f \in Fields :
              canvas.elementsById[id][f] =
                 IF ArrivalsSetting(id, f) = {} THEN LoadedValue(id, f)
                 ELSE arrivals[Highest(ArrivalsSetting(id, f))].patch[f]

\* C23 happens: two origins have updated the same element; both set x, to
\* different values, and only the first set y.
C23_Witness ==
    /\ Len(arrivals) = 2
    /\ arrivals[1].origin # arrivals[2].origin
    /\ arrivals[1].id = "a"
    /\ arrivals[2].id = "a"
    /\ "a" \in DOMAIN canvas.elementsById
    /\ DOMAIN arrivals[1].patch = {"x", "y"}
    /\ DOMAIN arrivals[2].patch = {"x"}
    /\ arrivals[1].patch["x"] # arrivals[2].patch["x"]
    /\ arrivals[1].patch["y"] = 50

\* C24: a presence entry that no presence update has refreshed for a whole
\* liveness window (here MaxTicks ticks) has been removed from the presence
\* map, also when no presence-leave for it arrives.
C24_StaleEntriesAreRemoved ==
    \A u \in DOMAIN presence.collaborators : watch.age[u] < MaxTicks

\* C25: the connection flag agrees with the transport whenever a session is
\* open: if a session is open and its socket is connected, isConnected is
\* true, also after a switch to another design on the connected shared socket.
C25_ConnectionFlagAgreesWithSocket ==
    (session.designId # Null /\ socket[session.socket].status = "connected")
    => presence.isConnected

\* The presence map is what the handled events, read in order of arrival,
\* say: for each collaborator the payload of its last update unless a leave
\* came after it, and no entry otherwise.
PresenceMatches(p, log) ==
    \A id \in UserIds :
        LET S == {i \in 1..Len(log) : log[i].id = id}
        IN IF S = {} \/ log[Highest(S)].event = "presence:leave"
           THEN id \notin DOMAIN p.collaborators
           ELSE /\ id \in DOMAIN p.collaborators
                /\ p.collaborators[id] = log[Highest(S)].payload
                /\ p.collaborators[id].id = id

\* C27: after any sequence of presence-update and presence-leave events the
\* presence map holds for each collaborator id the payload of its most recent
\* update, under its own id, unless a leave for the id arrived later, and no
\* entry otherwise; a presence event leaves the connection flag as it was.
C27_PresenceMapFollowsEvents ==
    [][/\ PresenceMatches(presence, watch.log)
       /\ PresenceMatches(presence', watch'.log)
       /\ (watch'.log # watch.log => presence'.isConnected = presence.isConnected)]_vars

\* C27 happens: two collaborators were seen, one was updated again and the
\* other has left.
C27_Witness ==
    /\ Len(watch.log) = 3
    /\ watch.log[1].event = "presence:update"
    /\ watch.log[2].event = "presence:update"
    /\ watch.log[2].id # watch.log[1].id
    /\ watch.log[3].event = "presence:leave"
    /\ watch.log[3].id = watch.log[1].id
    /\ DOMAIN presence.collaborators = {watch.log[2].id}

\* What the last call of the socket client module has left behind.
ClientCallDone(c) ==
    /\ c.held \in 0..c.made
    /\ c.held \notin c.closed
    /\ c.closed \cap c.connected = {}
    /\ (c.call = "createSocket" => (c.held # 0 /\ c.result = c.held /\ ~c.threw))
    /\ (c.call = "getSocket" => (c.threw = (c.held = 0) /\ c.result = c.held))
    /\ (c.call = "disconnectSocket" => c.held = 0)
    /\ \A w \in Callers : c.got[w] \in {0, c.held} \cup c.closed

\* C26: the socket client module holds at most one socket: createSocket
\* returns the held socket on every call until disconnectSocket and makes a
\* new one only when none is held, getSocket throws exactly when none is
\* held, and disconnectSocket disconnects the held socket and holds none.
C26_SocketClientSingleton ==
    [][/\ ClientCallDone(client)
       /\ ClientCallDone(client')
       /\ (client'.made # client.made =>
              (/\ client.held = 0
               /\ client'.call = "createSocket"
               /\ client'.made = client.made + 1
               /\ client'.held = client'.made))
       /\ ((client.held # 0 /\ client'.held # 0) => client'.held = client.held)
       /\ ((client.held # 0 /\ client'.held = 0) =>
              (/\ client'.call = "disconnectSocket"
               /\ client.held \in client'.closed
               /\ client.held \notin client'.connected))
       /\ ((client'.tick # client.tick /\ client'.call = "getSocket") =>
              (client'.threw = (client.held = 0) /\ client'.held = client.held))
       /\ ((client'.tick # client.tick /\ client'.call = "createSocket"
              /\ client.held # 0) =>
              (client'.result = client.held /\ client'.made = client.made))]_vars

\* C26 happens: a first socket was made, connected and disconnected, a second
\* one was made by the next createSocket and getSocket returns it.
C26_Witness ==
    /\ client.made = 2
    /\ client.closed = {1}
    /\ client.held = 2
    /\ client.call = "getSocket"
    /\ client.result = 2
    /\ ~client.threw

\* C28: undo and redo of the history slice only move entries between the
\* stacks: each keeps past followed by future as it was; redo right after an
\* undo on a non-empty past gives back the same past and future, and so does
\* undo right after a redo on a non-empty future.
C28_UndoRedoMoveEntries ==
    /\ undo(history).past \o undo(history).future = history.past \o history.future
    /\ redo(history).past \o redo(history).future = history.past \o history.future
    /\ (history.past # <<>> => redo(undo(history)) = history)
    /\ (history.future # <<>> => undo(redo(history)) = history)

\* C28 happens: two different snapshots were taken and one undone, so both
\* stacks hold an entry and either call moves one.
C28_Witness ==
    /\ Len(history.past) = 1
    /\ Len(history.future) = 1
    /\ history.past[1] # history.future[1]
    /\ undo(history) # history
    /\ redo(history) # history

\* No two designs of the state share an _id and no two elements of one
\* design share an id.
UniqueIds(state) ==
    /\ \A i, j \in 1..Len(state.items) :
          state.items[i]._id = state.items[j]._id => i = j
    /\ \A k \in 1..Len(state.items) :
          \A i, j \in 1..Len(state.items[k].elements) :
             state.items[k].elements[i].id = state.items[k].elements[j].id => i = j

\* C29: in every state reached by setActiveDesignId, upsertDesign and
\* updateElement with payloads of distinct element ids, no two designs share
\* an _id and no two elements of a design share an id; upsertDesign for an
\* _id that is there puts the payload at that design's position and changes
\* no other design.
C29_IdsStayUnique ==
    /\ UniqueIds(design)
    /\ \A d \in FetchedDesigns :
          LET i == designIndex(design.items, d._id)
              s == upsertDesign(design, d)
          IN /\ UniqueIds(s)
             /\ (i >= 1 =>
                   (/\ Len(s.items) = Len(design.items)
                    /\ s.items[i] = d
                    /\ \A j \in 1..Len(design.items) :
                          j # i => s.items[j] = design.items[j]))

\* C29 happens: the seed design was replaced in place by a fetched one while a
\* second design with two elements, one of them updated, follows it.
C29_Witness ==
    /\ Len(design.items) = 2
    /\ design.items[1]._id = "seed-design"
    /\ design.items[1].elements = <<>>
    /\ design.items[2]._id = "d2"
    /\ Len(design.items[2].elements) >= 2

\* C30: updateElement with a designId that matches no design leaves the
\* design state as it is; with a matching designId it changes the elements
\* and updatedAt of that design only: the other designs, the number of
\* designs, the design's _id and activeDesignId stay.
C30_UpdateElementFrame ==
    \A designId \in DesignIds, element \in AppElements, now \in Times :
       LET di == designIndex(design.items, designId)
           s == updateElement(design, designId, element, now)
       IN IF di = 0 THEN s = design
          ELSE /\ s.activeDesignId = design.activeDesignId
               /\ Len(s.items) = Len(design.items)
               /\ s.items[di]._id = designId
               /\ \A j \in 1..Len(design.items) :
                     j # di => s.items[j] = design.items[j]

\* C30 happens: of two designs the second, which is not the active one, has
\* had an element updated while the seed design is as it was.
C30_Witness ==
    /\ Len(design.items) = 2
    /\ design.items[1] = seedDesign
    /\ design.items[2]._id = "d2"
    /\ design.activeDesignId = "seed-design"
    /\ \E i \in 1..Len(design.items[2].elements) : design.items[2].elements[i].x # 0
    /\ updateElement(design, "d2", [id |-> "a", x |-> 0, y |-> 0], 0) # design

====
